---- MODULE Spec2Model ----
(***************************************************************************)
(* State-machine model of the BookingForm component                        *)
(* (src/components/BookingForm.tsx): the booking draft held in React       *)
(* state, its event handlers, the asynchronous FileReader decodes and the  *)
(* calls the component makes to its collaborators (Swal.fire, onSubmit).   *)
(***************************************************************************)
EXTENDS Integers, Sequences, FiniteSets, TLC

VARIABLES
    formData,        \* the draft as of the last committed render (what handlers close over)
    nextState,       \* the draft React's update queue yields at its next render
    shownTotal,      \* calculateTotal() as evaluated by the last render
    fileInputValue,  \* fileInputRef.current.value: name of the chosen file, "" when reset
    readers,         \* files of the FileReaders still reading, in order of construction
    calls,           \* calls the most recent handler made on its collaborators
    typed            \* a raw string offered to the phone field (SpecPhone only)

vars == <<formData, nextState, shownTotal, fileInputValue, readers,
          calls, typed>>

----------------------------------------------------------------------------
(* Bounds of the model *)

\* FileReaders reading at the same time
MaxInFlight == 2
\* largest magnitude of a delta passed to updateSeats
MaxDelta == 11
\* longest raw string offered to the phone field in SpecPhone
MaxTyped == 11

----------------------------------------------------------------------------
(* Program constants *)

\* Math.min(10, ...) in updateSeats
MaxSeats == 10
\* .slice(0, 10) in the phone onChange
PhoneMax == 10
\* formData.phone.length < 9 in handleSubmit
PhoneMin == 9
\* the size cap of handleFileChange, in bytes
MaxFileSize == 3 * 1024 * 1024

\* JavaScript null: FileReader.result after a read that failed or was aborted
Null == "null"

\* new Date(Date.now() + 86400000).toISOString().split('T')[0]
Tomorrow == "2026-11-04"

\* the service table imported from '../constants': name -> {time, price}
BUS_SERVICES ==
    [b \in {"Lagan Express", "Night Rider"} |->
        IF b = "Lagan Express" THEN [time |-> "08:30 PM", price |-> 1500]
                               ELSE [time |-> "10:00 PM", price |-> 2200]]

Min(a, b) == IF a < b THEN a ELSE b
Max(a, b) == IF a > b THEN a ELSE b

----------------------------------------------------------------------------
(* Inputs the environment can offer *)

Digits == {"0", "1", "2", "3", "4", "5", "6", "7", "8", "9"}

\* values of e.target.value offered to the phone field, as sequences of characters
Phone5 == <<"1", "2", "3", "4", "5">>
Phone8 == <<"0", "7", "7", "1", "2", "3", "4", "5">>
Phone9 == <<"0", "7", "7", "1", "2", "3", "4", "5", "6">>
PhoneMixed == <<"0", "7", "a", "b", "c", "7", "1", "2", "3", "4", "5", "6", "7">>
PhoneDashed == <<"0", "7", "7", "-", "1", "2", "3", " ", "4", "5", "6", "7">>
PhonePlus == <<"+", "9", "4">>

\* the whole component is explored with one rejected and one accepted phone
CommonPhones == {Phone5, Phone9}
PhoneInputs == CommonPhones \cup {<<>>, Phone8, PhoneMixed, PhoneDashed, PhonePlus}

\* every string over one digit and one non-digit, up to MaxTyped characters
TypedChars == {"7", "x"}
TypedStrings == UNION { [1..n -> TypedChars] : n \in 0..MaxTyped }

NameInputs == {"Nimal"}
CityInputs == {"Jaffna"}
DateInputs == {"2026-12-01"}
BusInputs == DOMAIN BUS_SERVICES \cup {"Unlisted"}
SeatTypes == {"male", "female"}
\* deltas passed to updateSeats: the buttons' -1 and +1, a larger step, and two
\* that cross the whole range; the whole component is explored with the last two
AllDeltas == {0 - MaxDelta, -3, -1, 1, 3, MaxDelta}
JumpDeltas == {0 - MaxDelta, MaxDelta}

\* files the user can pick: name, size in bytes, content
FileA == [name |-> "slip-a.png", size |-> 2048, content |-> "AAAA"]
FileB == [name |-> "slip-b.jpg", size |-> 3 * 1024 * 1024, content |-> "BBBB"]
FileC == [name |-> "scan.png", size |-> 3 * 1024 * 1024 + 1, content |-> "CCCC"]
Files == {FileA, FileB, FileC}

----------------------------------------------------------------------------
(* Pure functions *)

\* e.target.value.replace(/\D/g, '')
IsDigit(c) == c \in Digits
StripNonDigits(s) == SelectSeq(s, IsDigit)

\* String.prototype.slice(0, n)
SliceFromStart(s, n) == SubSeq(s, 1, Min(n, Len(s)))

SanitizePhoneSliceFirst(s) == StripNonDigits(SliceFromStart(s, PhoneMax))
SanitizePhone(s) == SliceFromStart(StripNonDigits(s), PhoneMax)

\* FileReader.readAsDataURL on success: a data URL carrying the whole content
DataURL(file) == "data:image;base64," \o file.content

\* Math.max(0, Math.min(10, current + delta))
ClampSeatsNoCeiling(current, delta) == Max(0, current + delta)
ClampSeats(current, delta) == Max(0, Min(MaxSeats, current + delta))

calculateTotalMaleOnly(fd) ==
    IF fd.bus \in DOMAIN BUS_SERVICES
    THEN BUS_SERVICES[fd.bus].price * fd.maleSeats
    ELSE 0
calculateTotal(fd) ==
    IF fd.bus \in DOMAIN BUS_SERVICES
    THEN BUS_SERVICES[fd.bus].price * (fd.maleSeats + fd.femaleSeats)
    ELSE 0

\* file.size > 3 * 1024 * 1024
TooLargeInclusive(file) == file.size >= MaxFileSize
TooLarge(file) == file.size > MaxFileSize

\* the two checks of handleSubmit
SeatsMissing(fd) == fd.maleSeats = 0 /\ fd.femaleSeats = 0
PhoneTooShortOffByOne(fd) == Len(fd.phone) < PhoneMin - 1
PhoneTooShort(fd) == Len(fd.phone) < PhoneMin

----------------------------------------------------------------------------
(* React state plumbing *)

InitialFormData ==
    [name |-> "", phone |-> <<>>, from |-> "", to |-> "", date |-> Tomorrow,
     time |-> "", bus |-> "", maleSeats |-> 0, femaleSeats |-> 0,
     paymentSlip |-> ""]

\* a render commits the state fd: handlers and the total are rebuilt from it
Commit(fd) ==
    /\ formData' = fd
    /\ shownTotal' = calculateTotal(fd)

\* setFormData(value) in a discrete event: the value, built from the rendered
\* draft, replaces whatever the queue held
SetValue(v) ==
    /\ Commit(v)
    /\ nextState' = v

NoCalls == calls' = <<>>
FileUntouched == UNCHANGED <<fileInputValue, readers>>

SwalFire(title) == [fn |-> "Swal.fire", title |-> title]
OnSubmitCall(data) == [fn |-> "onSubmit", data |-> data]
\* fileInputRef.current.value = ''
ResetFileInput == [fn |-> "fileInput.reset"]

----------------------------------------------------------------------------
(* Updaters passed to setFormData(prev => ...) *)

BusUpdaterKeepsTime(prev, busName) ==
    [prev EXCEPT !.bus = busName,
                 !.time = IF busName \in DOMAIN BUS_SERVICES
                          THEN BUS_SERVICES[busName].time ELSE prev.time]
BusUpdater(prev, busName) ==
    [prev EXCEPT !.bus = busName,
                 !.time = IF busName \in DOMAIN BUS_SERVICES
                          THEN BUS_SERVICES[busName].time ELSE ""]

SeatsUpdater(prev, type, delta) ==
    IF type = "male"
    THEN [prev EXCEPT !.maleSeats = ClampSeats(prev.maleSeats, delta)]
    ELSE [prev EXCEPT !.femaleSeats = ClampSeats(prev.femaleSeats, delta)]

SlipUpdaterKeepsFirst(prev, result) ==
    IF prev.paymentSlip = "" THEN [prev EXCEPT !.paymentSlip = result] ELSE prev
SlipUpdater(prev, result) == [prev EXCEPT !.paymentSlip = result]

RemoveUpdaterResetsDraft(prev) == InitialFormData
RemoveUpdater(prev) == [prev EXCEPT !.paymentSlip = ""]

----------------------------------------------------------------------------
(* Handlers *)

handleBusChange(busName) ==
    /\ Commit(BusUpdater(formData, busName))
    /\ nextState' = BusUpdater(nextState, busName)
    /\ NoCalls
    /\ FileUntouched
    /\ UNCHANGED typed

updateSeats(type, delta) ==
    /\ Commit(SeatsUpdater(formData, type, delta))
    /\ nextState' = SeatsUpdater(nextState, type, delta)
    /\ NoCalls
    /\ FileUntouched
    /\ UNCHANGED typed

nameOnChange(v) ==
    /\ SetValue([formData EXCEPT !.name = v])
    /\ NoCalls
    /\ FileUntouched
    /\ UNCHANGED typed

fromOnChange(v) ==
    /\ SetValue([formData EXCEPT !.from = v])
    /\ NoCalls
    /\ FileUntouched
    /\ UNCHANGED typed

toOnChange(v) ==
    /\ SetValue([formData EXCEPT !.to = v])
    /\ NoCalls
    /\ FileUntouched
    /\ UNCHANGED typed

dateOnChange(v) ==
    /\ SetValue([formData EXCEPT !.date = v])
    /\ NoCalls
    /\ FileUntouched
    /\ UNCHANGED typed

phoneOnChange(v) ==
    /\ SetValue([formData EXCEPT !.phone = SanitizePhone(v)])
    /\ NoCalls
    /\ FileUntouched
    /\ UNCHANGED typed

\* the browser puts the chosen file into the control and fires change
handleFileChange(file) ==
    /\ TooLarge(file) \/ Len(readers) < MaxInFlight
    /\ fileInputValue' = file.name
    /\ IF TooLarge(file)
       THEN /\ calls' = <<SwalFire("File too large")>>
            /\ UNCHANGED readers
       ELSE /\ calls' = <<>>
            /\ readers' = Append(readers, file)
    /\ UNCHANGED <<formData, nextState, shownTotal, typed>>

\* the file dialog is dismissed with nothing chosen: e.target.files is empty
handleFileChangeEmpty ==
    /\ fileInputValue' = ""
    /\ NoCalls
    /\ UNCHANGED <<formData, nextState, shownTotal, readers, typed>>

\* reader.result when loadend fires: the data URL, or null after an error or abort
ReaderResult(file, ok) == IF ok THEN DataURL(file) ELSE Null

\* the sequence s without its i-th element
RemoveAt(s, i) == SubSeq(s, 1, i - 1) \o SubSeq(s, i + 1, Len(s))

\* reader.onloadend of the i-th reader still reading: it fires once, after
\* success (ok) or failure; React commits the queued update within this task
\* (flushed) or in a later render
onloadend(i, ok, flushed) ==
    /\ i \in 1..Len(readers)
    /\ readers' = RemoveAt(readers, i)
    /\ nextState' = SlipUpdater(nextState, ReaderResult(readers[i], ok))
    /\ IF flushed THEN Commit(nextState') ELSE UNCHANGED <<formData, shownTotal>>
    /\ NoCalls
    /\ UNCHANGED <<fileInputValue, typed>>

\* React renders the updates onloadend left pending
Render ==
    /\ nextState # formData
    /\ Commit(nextState)
    /\ NoCalls
    /\ FileUntouched
    /\ UNCHANGED <<nextState, typed>>

\* the Remove button is rendered only while formData.paymentSlip is truthy
removeFile ==
    /\ formData.paymentSlip \notin {"", Null}
    /\ Commit(RemoveUpdater(formData))
    /\ nextState' = RemoveUpdater(nextState)
    /\ fileInputValue' = ""
    /\ calls' = <<ResetFileInput>>
    /\ UNCHANGED <<readers, typed>>

\* the required attributes of the inputs, checked by the browser before submit
RequiredFilled(fd) ==
    /\ fd.name # ""
    /\ fd.phone # <<>>
    /\ fd.from # ""
    /\ fd.to # ""
    /\ fd.date # ""
    /\ fd.bus # ""

handleSubmitThenReset ==
    /\ RequiredFilled(formData)
    /\ IF SeatsMissing(formData)
       THEN /\ calls' = <<SwalFire("Seat Selection Required")>>
            /\ UNCHANGED <<formData, nextState, shownTotal>>
       ELSE IF PhoneTooShort(formData)
       THEN /\ calls' = <<SwalFire("Invalid Phone Number")>>
            /\ UNCHANGED <<formData, nextState, shownTotal>>
       ELSE /\ calls' = <<OnSubmitCall(formData)>>
            /\ SetValue(InitialFormData)
    /\ FileUntouched
    /\ UNCHANGED typed
handleSubmit ==
    /\ RequiredFilled(formData)
    /\ calls' =
         IF SeatsMissing(formData)
         THEN <<SwalFire("Seat Selection Required")>>
         ELSE IF PhoneTooShort(formData)
         THEN <<SwalFire("Invalid Phone Number")>>
         ELSE <<OnSubmitCall(formData)>>
    /\ UNCHANGED <<formData, nextState, shownTotal, typed>>
    /\ FileUntouched

----------------------------------------------------------------------------
(* Specifications *)

Init ==
    /\ formData = InitialFormData
    /\ nextState = InitialFormData
    /\ shownTotal = calculateTotal(InitialFormData)
    /\ fileInputValue = ""
    /\ readers = <<>>
    /\ calls = <<>>
    /\ typed = <<>>

\* the whole component: every handler, the decodes and the deferred render
Next ==
    \/ \E b \in BusInputs : handleBusChange(b)
    \/ \E t \in SeatTypes, d \in JumpDeltas : updateSeats(t, d)
    \/ \E v \in NameInputs : nameOnChange(v)
    \/ \E v \in CityInputs : fromOnChange(v)
    \/ \E v \in CityInputs : toOnChange(v)
    \/ \E v \in DateInputs : dateOnChange(v)
    \/ \E v \in CommonPhones : phoneOnChange(v)
    \/ \E f \in Files : handleFileChange(f)
    \/ handleFileChangeEmpty
    \/ \E i \in 1..MaxInFlight, ok \in BOOLEAN, flushed \in BOOLEAN :
          onloadend(i, ok, flushed)
    \/ Render
    \/ removeFile
    \/ handleSubmit

Spec == Init /\ [][Next]_vars

\* the draft without the file loader: every seat count and every delta
NextDraft ==
    \/ \E b \in BusInputs : handleBusChange(b)
    \/ \E t \in SeatTypes, d \in AllDeltas : updateSeats(t, d)
    \/ \E v \in NameInputs : nameOnChange(v)
    \/ \E v \in CityInputs : fromOnChange(v)
    \/ \E v \in CityInputs : toOnChange(v)
    \/ \E v \in DateInputs : dateOnChange(v)
    \/ \E v \in PhoneInputs : phoneOnChange(v)
    \/ handleSubmit

SpecDraft == Init /\ [][NextDraft]_vars

\* the phone field alone, offered every string of TypedStrings
InitPhone ==
    /\ formData = InitialFormData
    /\ nextState = InitialFormData
    /\ shownTotal = calculateTotal(InitialFormData)
    /\ fileInputValue = ""
    /\ readers = <<>>
    /\ calls = <<>>
    /\ typed \in TypedStrings \cup PhoneInputs

NextPhone == phoneOnChange(typed)

SpecPhone == InitPhone /\ [][NextPhone]_vars

----------------------------------------------------------------------------
(* Claims *)

\* the fields of a draft other than paymentSlip
OtherFields(fd) == [fd EXCEPT !.paymentSlip = ""]

OnSubmitCalls(cs) == {i \in 1..Len(cs) : cs[i].fn = "onSubmit"}
Notifications(cs) == {i \in 1..Len(cs) : cs[i].fn = "Swal.fire"}

\* C1: a submit made with no seat selected, or with a phone shorter than 9
\* characters, calls onSubmit not at all, raises one notification and leaves
\* the draft as it was; and every onSubmit call that is ever made carries a
\* draft with at least one seat and a phone of at least 9 characters.
C1_BlockedStep ==
    (handleSubmit /\ ((formData.maleSeats = 0 /\ formData.femaleSeats = 0)
                      \/ Len(formData.phone) < 9))
    => /\ OnSubmitCalls(calls') = {}
       /\ Notifications(calls') # {}
       /\ formData' = formData
       /\ nextState' = nextState
C1_CallsCarryValidDraft ==
    \A i \in OnSubmitCalls(calls) :
        /\ calls[i].data.maleSeats + calls[i].data.femaleSeats >= 1
        /\ Len(calls[i].data.phone) >= 9
C1_InvalidSubmitBlocked == [][C1_BlockedStep]_vars /\ []C1_CallsCarryValidDraft

\* a submit with two seats and an 8-digit phone was answered by the phone notification
C1_Witness ==
    /\ calls = <<SwalFire("Invalid Phone Number")>>
    /\ formData.maleSeats + formData.femaleSeats = 2
    /\ Len(formData.phone) = 8

\* C2: a submit made with at least one seat and a phone of at least 9
\* characters calls onSubmit exactly once, with the draft as it stands, whether
\* or not a payment slip is attached, and changes nothing of the component's
\* own state.
C2_ValidStep ==
    (handleSubmit /\ formData.maleSeats + formData.femaleSeats >= 1
                  /\ Len(formData.phone) >= 9)
    => /\ Len(calls') = 1
       /\ calls'[1].fn = "onSubmit"
       /\ calls'[1].data = formData
       /\ formData' = formData
       /\ UNCHANGED <<nextState, shownTotal, fileInputValue, readers>>
C2_ValidSubmitCallsOnce == [][C2_ValidStep]_vars

\* onSubmit was called with a draft that has no payment slip
C2_Witness ==
    /\ Len(calls) = 1
    /\ calls[1].fn = "onSubmit"
    /\ calls[1].data = formData
    /\ formData.paymentSlip = ""
    /\ Len(formData.phone) = 9

\* C3: both seat counts are within [0,10] in every reachable state, and
\* updateSeats stores current + delta limited to that range, for every delta.
Limited(n) == IF n < 0 THEN 0 ELSE IF n > 10 THEN 10 ELSE n
C3_InRange ==
    /\ formData.maleSeats \in 0..10
    /\ formData.femaleSeats \in 0..10
    /\ nextState.maleSeats \in 0..10
    /\ nextState.femaleSeats \in 0..10
C3_SeatStep ==
    \A d \in AllDeltas :
        /\ updateSeats("male", d) =>
             /\ formData'.maleSeats = Limited(formData.maleSeats + d)
             /\ formData'.femaleSeats = formData.femaleSeats
        /\ updateSeats("female", d) =>
             /\ formData'.femaleSeats = Limited(formData.femaleSeats + d)
             /\ formData'.maleSeats = formData.maleSeats
C3_SeatsClamped == []C3_InRange /\ [][C3_SeatStep]_vars

\* one count stands at the ceiling and the other strictly inside the range
C3_Witness == formData.maleSeats = 10 /\ formData.femaleSeats = 3

\* C4: in every reachable state time is the scheduled time of the stored bus,
\* or empty when the stored bus has no entry in the service table; and
\* selecting a bus stores that bus.
TimeMatchesBus(fd) ==
    IF fd.bus \in DOMAIN BUS_SERVICES
    THEN fd.time = BUS_SERVICES[fd.bus].time
    ELSE fd.time = ""
C4_Consistent == TimeMatchesBus(formData) /\ TimeMatchesBus(nextState)
C4_SelectStep == \A b \in BusInputs : handleBusChange(b) => formData'.bus = b
C4_TimeFollowsBus == []C4_Consistent /\ [][C4_SelectStep]_vars

\* an unlisted bus is stored with an empty time after other fields were edited
C4_Witness ==
    /\ formData.bus = "Unlisted"
    /\ formData.time = ""
    /\ formData.name # ""
    /\ formData.paymentSlip # ""

\* C5: paymentSlip is empty or the decoded data of an accepted file.
AcceptedData == {DataURL(f) : f \in {g \in Files : g.size <= 3 * 1024 * 1024}}
C5_SlipEmptyOrDecoded == formData.paymentSlip \in {""} \cup AcceptedData

\* C6: choosing a file larger than 3 MB raises a notification, starts no decode
\* and leaves the draft as it was; choosing a file of at most 3 MB starts a
\* decode of that file.
C6_FileStep ==
    \A f \in Files :
        handleFileChange(f) =>
            IF f.size > 3 * 1024 * 1024
            THEN /\ Notifications(calls') # {}
                 /\ readers' = readers
                 /\ formData' = formData
                 /\ nextState' = nextState
            ELSE /\ Len(readers') = Len(readers) + 1
                 /\ readers'[Len(readers')] = f
                 /\ Notifications(calls') = {}
C6_OversizeRejected == [][C6_FileStep]_vars

\* the oversize file was refused while a slip was attached and another decode ran
C6_Witness ==
    /\ calls = <<SwalFire("File too large")>>
    /\ fileInputValue = FileC.name
    /\ formData.paymentSlip = DataURL(FileB)
    /\ readers = <<FileA>>

\* C7: no step cancels a decode in flight: a decode leaves the readers only by
\* completing, one at a time and in any order, and each completion writes its
\* own result (the data of its file, or null) over the queued paymentSlip, so
\* the value left when all have completed is that of the last completion.
C7_LoadStep ==
    /\ Len(readers') > Len(readers) =>
          SubSeq(readers', 1, Len(readers)) = readers
    /\ Len(readers') = Len(readers) => readers' = readers
    /\ Len(readers') < Len(readers) =>
          \E i \in 1..Len(readers) :
             /\ readers' = SubSeq(readers, 1, i - 1) \o SubSeq(readers, i + 1, Len(readers))
             /\ nextState'.paymentSlip \in {DataURL(readers[i]), Null}
             /\ formData'.paymentSlip \in {formData.paymentSlip, nextState'.paymentSlip}
C7_LastCompletionWins == [][C7_LoadStep]_vars

\* FileB was the file chosen last and its decode has completed, no field was
\* typed into and nothing is pending, yet the slip is FileA's data: FileA's
\* decode, started earlier, completed after FileB's
C7_Witness ==
    /\ readers = <<>>
    /\ fileInputValue = FileB.name
    /\ formData.paymentSlip = DataURL(FileA)
    /\ nextState = formData
    /\ formData.name = "" /\ formData.from = "" /\ formData.to = ""
    /\ formData.date = Tomorrow /\ formData.phone = <<>>

\* C8: removeFile empties paymentSlip, resets the file control and leaves every
\* other field of the draft as it was.
C8_RemoveStep ==
    removeFile =>
        /\ formData'.paymentSlip = ""
        /\ nextState'.paymentSlip = ""
        /\ fileInputValue' = ""
        /\ OtherFields(formData') = OtherFields(formData)
        /\ OtherFields(nextState') = OtherFields(nextState)
C8_RemoveClearsSlip == [][C8_RemoveStep]_vars

\* removeFile has just run on a draft that has a name, a bus and seats
C8_Witness ==
    /\ calls = <<ResetFileInput>>
    /\ formData.paymentSlip = ""
    /\ fileInputValue = ""
    /\ formData.name = "Nimal"
    /\ formData.bus = "Night Rider"
    /\ formData.maleSeats = 10

\* C9: the total shown is 0 when the stored bus has no entry in the service
\* table, and price * (maleSeats + femaleSeats) otherwise.
C9_TotalIsPriceTimesSeats ==
    shownTotal =
        IF formData.bus \in DOMAIN BUS_SERVICES
        THEN BUS_SERVICES[formData.bus].price
               * (formData.maleSeats + formData.femaleSeats)
        ELSE 0

\* three seats on the Night Rider cost 6600
C9_Witness ==
    /\ formData.bus = "Night Rider"
    /\ formData.maleSeats = 1
    /\ formData.femaleSeats = 2
    /\ shownTotal = 6600

\* C10: the stored phone is the typed string without its non-digits, cut to
\* its first 10 characters; so it holds digits only and at most 10 of them.
RECURSIVE FirstDigits(_, _)
FirstDigits(s, n) ==
    IF s = <<>> \/ n = 0 THEN <<>>
    ELSE IF Head(s) \in {"0", "1", "2", "3", "4", "5", "6", "7", "8", "9"}
         THEN <<Head(s)>> \o FirstDigits(Tail(s), n - 1)
         ELSE FirstDigits(Tail(s), n)
C10_DigitsOnly ==
    /\ Len(formData.phone) <= 10
    /\ \A i \in 1..Len(formData.phone) :
          formData.phone[i] \in {"0", "1", "2", "3", "4", "5", "6", "7", "8", "9"}
C10_PhoneStep == formData'.phone = FirstDigits(typed, 10)
C10_PhoneSanitized == []C10_DigitsOnly /\ [][C10_PhoneStep]_vars

\* the mixed input of thirteen characters was stored as its first ten digits
C10_Witness ==
    /\ typed = PhoneMixed
    /\ formData.phone = <<"0", "7", "7", "1", "2", "3", "4", "5", "6", "7">>

\* C11: an edit of name, phone, from, to, date, bus or seats changes only its
\* own field(s) of the most recent draft state, the one the update queue
\* holds; in particular it keeps the data that a successfully completed
\* decode has queued as paymentSlip but that is not rendered yet.
OnlyFieldsChanged(old, new, fields) ==
    \A k \in DOMAIN old : k \notin fields => new[k] = old[k]
C11_EditStep ==
    nextState.paymentSlip # Null =>
    /\ (\E v \in NameInputs : nameOnChange(v))
          => OnlyFieldsChanged(nextState, nextState', {"name"})
    /\ (\E v \in CommonPhones : phoneOnChange(v))
          => OnlyFieldsChanged(nextState, nextState', {"phone"})
    /\ (\E v \in CityInputs : fromOnChange(v))
          => OnlyFieldsChanged(nextState, nextState', {"from"})
    /\ (\E v \in CityInputs : toOnChange(v))
          => OnlyFieldsChanged(nextState, nextState', {"to"})
    /\ (\E v \in DateInputs : dateOnChange(v))
          => OnlyFieldsChanged(nextState, nextState', {"date"})
    /\ (\E b \in BusInputs : handleBusChange(b))
          => OnlyFieldsChanged(nextState, nextState', {"bus", "time"})
    /\ (\E t \in SeatTypes, d \in JumpDeltas : updateSeats(t, d))
          => OnlyFieldsChanged(nextState, nextState', {"maleSeats", "femaleSeats"})
C11_NoUpdateLost == [][C11_EditStep]_vars

\* C12: a decode that was in flight when removeFile ran does not write
\* paymentSlip when it completes. Right after removeFile every reader still
\* reading was constructed before the removal, so a completion that directly
\* follows it, unless its read failed, must leave paymentSlip empty.
C12_CompletionAfterRemove ==
    (calls = <<ResetFileInput>> /\ Len(readers') < Len(readers)
                                /\ nextState'.paymentSlip # Null)
    => /\ nextState'.paymentSlip = ""
       /\ formData'.paymentSlip = ""
C12_RemovedSlipStaysEmpty == [][C12_CompletionAfterRemove]_vars

====
